---- MODULE Spec2Model ----
(***************************************************************************)
(* The asynchronous batch-embedding client of the notebook                 *)
(* automatic_embedding_tei_inference_endpoints.ipynb:                      *)
(*                                                                         *)
(*   async def request(document, semaphore):                               *)
(*       async with semaphore:                                             *)
(*           result = await endpoint.async_client.post(json={...})         *)
(*           result = np.array(json.loads(result.decode()))                *)
(*           document['embedding'] = result[0]                             *)
(*           return document                                               *)
(*                                                                         *)
(*   async def main(documents):                                            *)
(*       semaphore = asyncio.BoundedSemaphore(MAX_WORKERS)                 *)
(*       tasks = [request(document, semaphore) for document in documents]  *)
(*       for f in tqdm(asyncio.as_completed(tasks), total=len(documents)): *)
(*           await f                                                       *)
(*                                                                         *)
(* One asyncio event loop runs main and the request tasks cooperatively:   *)
(* a step of the model is the code a coroutine runs between two            *)
(* suspension points.                                                      *)
(***************************************************************************)
EXTENDS Naturals, Sequences, FiniteSets

\* ---------------------------------------------------------------- bounds
MaxDocs == 3        \* ROW_COUNT, the size of the Job Set, is drawn from 0..MaxDocs
MaxWorkers == 2     \* MAX_WORKERS is drawn from 1..MaxWorkers
MaxChunks == 2      \* a response holds 0..MaxChunks vectors
MaxAttempts == 2    \* a Record is requested at most MaxAttempts times

\* ------------------------------------------------------ program constants
EMBEDDING_DIM == 768    \* the output dimensionality of the embedding model

VARIABLES
    MAX_WORKERS,  \* the configured number of async workers
    documents,    \* the list of dicts handed to main
    mainpc,       \* where main is: idle, loop, returned, raised, cancelled
    semaphore,    \* the BoundedSemaphore: value, bound, waiters
    tasks,        \* one per request coroutine: its document, its position
                  \* and how its request ended (none, ok, dropped, or the
                  \* kind of its failure)
    network,      \* the requests posted to the endpoint and not yet answered
    completed,    \* as_completed's queue of finished tasks, oldest first
    progress,     \* tqdm's counter
    attempts,     \* per Record, the number of requests posted for it
    atCancel,     \* the tasks whose request was outstanding when main was
                  \* cancelled
    jobset,       \* the argument of main: references to Records of documents
    report,       \* what the cell printed after `await main(documents)`
    now,          \* the time, in units of the endpoint's response delay
    endpoint,     \* the status of the Inference Endpoint
    df            \* the DataFrame built from documents after the run

vars == <<MAX_WORKERS, documents, mainpc, semaphore, tasks, network,
          completed, progress, attempts, atCancel, jobset, report, now,
          endpoint, df>>

\* ------------------------------------------------------------- helpers
\* The `content` column of the input dataset: every row the same text, or
\* the texts alternating.
Datasets ==
    {[i \in 1..MaxDocs |-> "a"],
     [i \in 1..MaxDocs |-> IF i % 2 = 1 THEN "a" ELSE "b"]}

\* A Record as loaded from the dataset: no `embedding` key yet.
NewRecord(i, text) == [id |-> i, content |-> text]

\* dataset['train'].to_pandas().to_dict('records')[:ROW_COUNT]
Records(dataset, rowCount) ==
    [i \in 1..rowCount |-> NewRecord(i, dataset[i])]

HasEmbedding(document) == "embedding" \in DOMAIN document

\* The Records that carry an `embedding` key.
Embedded == {d \in DOMAIN documents : HasEmbedding(documents[d])}

TaskIds == DOMAIN tasks

InState(s) == {t \in TaskIds : tasks[t].pc = s}

\* The requests the client has posted and whose await has not finished.
Outstanding == InState("posting")

\* The tasks inside the `async with semaphore` block.
Holders == InState("admitted") \cup InState("posting")

\* ------------------------------------------------- asyncio.BoundedSemaphore
\* Variant of BoundedSemaphore with the default single permit.
BoundedSemaphoreOne(n) == [value |-> 1, bound |-> 1, waiters |-> <<>>]

\* asyncio.BoundedSemaphore(n)
BoundedSemaphore(n) == [value |-> n, bound |-> n, waiters |-> <<>>]

\* Variant of Locked that lets one task too many through the gate.
LockedBelowZero(sem) == sem.value < 0 \/ sem.waiters # <<>>

\* Semaphore.locked(): no permit is free, or somebody is already queued.
Locked(sem) == sem.value = 0 \/ sem.waiters # <<>>

\* Semaphore.acquire() when not locked: take a permit without suspending.
Acquired(sem) == [sem EXCEPT !.value = @ - 1]

\* Variant of Enqueued in which the suspended task's future is not queued.
EnqueuedNowhere(sem, t) == sem

\* Semaphore.acquire() when locked: queue a future and suspend on it.
Enqueued(sem, t) == [sem EXCEPT !.waiters = Append(@, t)]

\* Variant of Released that never resolves a waiter's future.
ReleasedNoWake(sem) == [sem EXCEPT !.value = @ + 1]

\* Variant of Released that resolves a waiter's future and also puts the
\* permit back on the counter.
ReleasedAndCounted(sem) ==
    IF sem.waiters # <<>>
    THEN [sem EXCEPT !.waiters = Tail(@), !.value = @ + 1]
    ELSE [sem EXCEPT !.value = @ + 1]

\* Semaphore.release(): the permit goes to the oldest waiter when there is
\* one (its future is resolved), and back to the counter otherwise.
Released(sem) ==
    IF sem.waiters # <<>>
    THEN [sem EXCEPT !.waiters = Tail(@)]
    ELSE [sem EXCEPT !.value = @ + 1]

Range(q) == {q[i] : i \in DOMAIN q}

\* The tasks whose acquire() a release() of sem completes.
Woken(sem) == Range(sem.waiters) \ Range(Released(sem).waiters)

\* ------------------------------------------------------------ the endpoint
\* The text "b" stands for a document longer than the context length the
\* service accepts; "a" fits.
Oversized(text) == text = "b"

\* Variant of Payload in which the client clips an oversized text itself.
PayloadClipped(document) ==
    [inputs |-> IF Oversized(document.content) THEN "a" ELSE document.content,
     truncate |-> TRUE]

\* json={"inputs": document['content'], 'truncate': True}
Payload(document) == [inputs |-> document.content, truncate |-> TRUE]

\* How a request can fail: a transient network error (timeout, connection
\* reset), a service-side error (non-2xx status, malformed body) and, for an
\* oversized input sent without truncate, the rejection of the request.
ErrorKinds(req) ==
    {"transient", "service"} \cup
        (IF Oversized(req.json.inputs) /\ ~req.json.truncate
         THEN {"rejected"} ELSE {})

Failures == {"transient", "service", "rejected"}

\* A vector stands for the floats the model computes for a text; it also
\* records the request it answers and its rank in the response.
Vector(req, k) ==
    [text |-> req.json.inputs, req |-> req.task, chunk |-> k,
     shape |-> <<EMBEDDING_DIM>>]

\* The decoded body of a 2xx response: one vector per chunk of the input.
Reply(req, n) == [k \in 1..n |-> Vector(req, k)]

\* The service answers a text that fits with one vector, and an oversized
\* one with as many vectors as it has chunks.
ChunksOf(text) == IF Oversized(text) THEN MaxChunks ELSE 1

\* np.array(json.loads(result.decode())): a two-dimensional array.
NpArray(rows) == [shape |-> <<Len(rows), EMBEDDING_DIM>>, rows |-> rows]

\* len(x) of an array: the size of its first axis.
PyLen(array) == array.shape[1]

\* ------------------------------------------------------------------ request
\* Variant of SetEmbedding that also overwrites the text with what the
\* service kept of it.
SetEmbeddingClipText(document, result) ==
    [key \in DOMAIN document \cup {"embedding"} |->
        IF key = "embedding" THEN result.rows[1]
        ELSE IF key = "content" THEN "a"
        ELSE document[key]]

\* Variant of SetEmbedding that stores the whole array (result, not result[0]).
SetEmbeddingWhole(document, result) ==
    [key \in DOMAIN document \cup {"embedding"} |->
        IF key = "embedding" THEN result ELSE document[key]]

\* Variant of SetEmbedding that stores the last vector (result[-1]).
SetEmbeddingLast(document, result) ==
    [key \in DOMAIN document \cup {"embedding"} |->
        IF key = "embedding" THEN result.rows[Len(result.rows)]
        ELSE document[key]]

\* document['embedding'] = result[0]
SetEmbedding(document, result) ==
    [key \in DOMAIN document \cup {"embedding"} |->
        IF key = "embedding" THEN result.rows[1] ELSE document[key]]

\* Variant of StoreOn that fills the Records in completion order.
StoreOnNextEmpty(docs, d, result) ==
    LET empty == {e \in DOMAIN docs : ~HasEmbedding(docs[e])}
        first == IF empty = {} THEN d
                 ELSE CHOOSE e \in empty : \A o \in empty : e <= o
    IN  [docs EXCEPT ![first] = SetEmbedding(@, result)]

\* Variant of StoreOn for Records that are all one shared dict.
StoreOnAll(docs, d, result) ==
    [e \in DOMAIN docs |-> SetEmbedding(docs[e], result)]

\* Variant of StoreOn that fills the Records by the position of the response
\* among the results that main has not consumed yet.
StoreOnByArrival(docs, d, result) ==
    [docs EXCEPT ![Len(completed) + 1] = SetEmbedding(@, result)]

\* The assignment is to the dict the coroutine was called with.
StoreOn(docs, d, result) == [docs EXCEPT ![d] = SetEmbedding(@, result)]

\* endpoint.async_client.post(...): the request leaves for the endpoint and
\* the task suspends until the response is there.
Post(t) ==
    LET d == tasks[t].document
    IN  /\ network' = network \cup
                {[task |-> t, json |-> Payload(documents[d]), at |-> now]}
        /\ attempts' = [attempts EXCEPT ![d] = @ + 1]

\* Leaving the `async with semaphore` block, by return or by exception:
\* the permit is released, the task ends and as_completed queues it.
Leave(t, endpc, how) ==
    /\ semaphore' = Released(semaphore)
    /\ tasks' = [u \in TaskIds |->
                    IF u = t
                    THEN [tasks[u] EXCEPT !.pc = endpc, !.outcome = how]
                    ELSE IF u \in Woken(semaphore)
                    THEN [tasks[u] EXCEPT !.pc = "admitted"]
                    ELSE tasks[u]]
    /\ completed' = Append(completed, t)

\* Variant of TaskStart that gives up instead of waiting for a permit.
TaskStartSkipWhenLocked(t) ==
    /\ t \in InState("created")
    /\ IF Locked(semaphore)
       THEN /\ tasks' = [tasks EXCEPT ![t].pc = "done"]
            /\ completed' = Append(completed, t)
            /\ UNCHANGED <<semaphore, network, attempts>>
       ELSE /\ semaphore' = Acquired(semaphore)
            /\ tasks' = [tasks EXCEPT ![t].pc = "posting"]
            /\ Post(t)
            /\ UNCHANGED completed
    /\ UNCHANGED <<atCancel, jobset, report, now, endpoint, df,
                   MAX_WORKERS, documents, mainpc, progress>>

\* The first step of a request task: `async with semaphore` either passes
\* and posts, or suspends in the semaphore's queue.
TaskStart(t) ==
    /\ t \in InState("created")
    /\ IF Locked(semaphore)
       THEN /\ semaphore' = Enqueued(semaphore, t)
            /\ tasks' = [tasks EXCEPT ![t].pc = "waiting"]
            /\ UNCHANGED <<network, attempts>>
       ELSE /\ semaphore' = Acquired(semaphore)
            /\ tasks' = [tasks EXCEPT ![t].pc = "posting"]
            /\ Post(t)
    /\ UNCHANGED <<atCancel, jobset, report, now, endpoint, df,
                   MAX_WORKERS, documents, mainpc, completed, progress>>

\* A task that was handed a permit runs again and posts.
Resume(t) ==
    /\ t \in InState("admitted")
    /\ tasks' = [tasks EXCEPT ![t].pc = "posting"]
    /\ Post(t)
    /\ UNCHANGED <<atCancel, jobset, report, now, endpoint, df,
                   MAX_WORKERS, documents, mainpc, semaphore, completed,
                   progress>>

\* Variant of RespondError that keeps the permit when the request raises.
RespondErrorLeak(t) ==
    /\ t \in InState("posting")
    /\ \E req \in network :
        /\ req.task = t
        /\ network' = network \ {req}
    /\ tasks' = [tasks EXCEPT ![t].pc = "failed", ![t].outcome = "transient"]
    /\ completed' = Append(completed, t)
    /\ UNCHANGED <<atCancel, jobset, report, now, endpoint, df,
                   MAX_WORKERS, documents, mainpc, semaphore, progress,
                   attempts>>

\* Variant of RespondError in which the exception comes after a vector of
\* the response was already written to the Record.
RespondErrorHalfStored(t) ==
    /\ t \in InState("posting")
    /\ \E req \in network :
        /\ req.task = t
        /\ network' = network \ {req}
        /\ documents' = StoreOn(documents, tasks[t].document,
                                NpArray(Reply(req, 1)))
        /\ \E kind \in ErrorKinds(req) : Leave(t, "failed", kind)
    /\ UNCHANGED <<atCancel, jobset, report, now, endpoint, df,
                   MAX_WORKERS, mainpc, progress, attempts>>

\* A response that raises in the task: a network error or a non-2xx status
\* (post raises), or a body that is not JSON (json.loads raises). The task
\* ends with that exception; nothing in request() catches or retries.
RespondError(t) ==
    /\ t \in InState("posting")
    /\ \E req \in network :
        /\ req.task = t
        /\ network' = network \ {req}
        /\ \E kind \in ErrorKinds(req) : Leave(t, "failed", kind)
    /\ UNCHANGED <<atCancel, jobset, report, now, endpoint, df,
                   MAX_WORKERS, documents, mainpc, progress, attempts>>

\* A 2xx response with n vectors: the vectors of the input's chunks, or an
\* empty body. result[0] of an empty array raises IndexError; otherwise the
\* first vector is stored on the task's document.
RespondOk(t) ==
    /\ t \in InState("posting")
    /\ \E req \in network :
        /\ req.task = t
        /\ network' = network \ {req}
        /\ \E n \in {0, ChunksOf(req.json.inputs)} :
            IF n = 0
            THEN /\ Leave(t, "failed", "service")
                 /\ UNCHANGED documents
            ELSE /\ documents' = StoreOn(documents, tasks[t].document,
                                         NpArray(Reply(req, n)))
                 /\ Leave(t, "done", "ok")
    /\ UNCHANGED <<atCancel, jobset, report, now, endpoint, df,
                   MAX_WORKERS, mainpc, progress, attempts>>

\* The endpoint never answers a request: no timeout is set on the post, so
\* the task stays suspended in it.
Drop(t) ==
    /\ t \in InState("posting")
    /\ \E req \in network :
        /\ req.task = t
        /\ network' = network \ {req}
    /\ tasks' = [tasks EXCEPT ![t].outcome = "dropped"]
    /\ UNCHANGED <<atCancel, jobset, report, now, endpoint, df,
                   MAX_WORKERS, documents, mainpc, semaphore, completed,
                   progress, attempts>>

\* --------------------------------------------------------------------- main
\* Variant of CreateTasks in which every coroutine gets the last document.
CreateTasksLateBinding(docs) ==
    [t \in 1..Len(docs) |->
        [document |-> docs[Len(docs)], pc |-> "created", outcome |-> "none"]]

\* Variant of CreateTasks that takes the t-th Record of the global list
\* for the t-th element of its argument.
CreateTasksByPosition(docs) ==
    [t \in 1..Len(docs) |-> [document |-> t, pc |-> "created", outcome |-> "none"]]

\* tasks = [request(document, semaphore) for document in documents], docs
\* being main's argument, a list of references to Records.
CreateTasks(docs) ==
    [t \in 1..Len(docs) |->
        [document |-> docs[t], pc |-> "created", outcome |-> "none"]]

\* tqdm(..., total=len(documents)), documents being main's argument.
Total == Len(jobset)

\* The cell's code after `await main(documents)`: the Records with an
\* embedding of 768 numbers are counted and the count is printed.
Printed ==
    [printed |-> TRUE,
     count |-> Cardinality({d \in Embedded :
                              PyLen(documents[d].embedding) = EMBEDDING_DIM}),
     total |-> Len(documents)]

NotPrinted == [printed |-> FALSE, count |-> 0, total |-> 0]

\* `await main(documents)` up to its first suspension: the semaphore and the
\* coroutines are created and as_completed schedules them all. With no
\* document the loop body never runs, main returns and the cell goes on to
\* its count.
MainStart ==
    /\ mainpc = "idle"
    /\ semaphore' = BoundedSemaphore(MAX_WORKERS)
    /\ tasks' = CreateTasks(jobset)
    /\ mainpc' = IF Len(jobset) = 0 THEN "returned" ELSE "loop"
    /\ report' = IF Len(jobset) = 0 THEN Printed ELSE report
    /\ UNCHANGED <<atCancel, jobset, now, endpoint, df,
                   MAX_WORKERS, documents, network, completed, progress,
                   attempts>>

\* Variant of MainAwait that returns after the first result.
MainAwaitFirstOnly ==
    /\ mainpc = "loop"
    /\ completed # <<>>
    /\ completed' = Tail(completed)
    /\ IF tasks[Head(completed)].pc = "failed"
       THEN /\ mainpc' = "raised"
            /\ UNCHANGED <<progress, report>>
       ELSE /\ progress' = progress + 1
            /\ mainpc' = "returned"
            /\ report' = Printed
    /\ UNCHANGED <<atCancel, jobset, now, endpoint, df,
                   MAX_WORKERS, documents, semaphore, tasks, network,
                   attempts>>

\* Variant of MainAwait whose counter advances by two per result.
MainAwaitCountTwice ==
    /\ mainpc = "loop"
    /\ completed # <<>>
    /\ completed' = Tail(completed)
    /\ IF tasks[Head(completed)].pc = "failed"
       THEN /\ mainpc' = "raised"
            /\ UNCHANGED <<progress, report>>
       ELSE /\ progress' = progress + 2
            /\ mainpc' = IF progress + 2 >= Len(jobset)
                         THEN "returned" ELSE "loop"
            /\ report' = IF progress + 2 >= Len(jobset)
                         THEN Printed ELSE report
    /\ UNCHANGED <<atCancel, jobset, now, endpoint, df,
                   MAX_WORKERS, documents, semaphore, tasks, network,
                   attempts>>

\* `await f`: the next finished task's result. A task that raised makes the
\* await raise, and neither main nor the cell has a handler: the cell stops.
\* Otherwise tqdm counts one more, main returns after len(documents) of them
\* and the cell goes on to count and print.
MainAwait ==
    /\ mainpc = "loop"
    /\ completed # <<>>
    /\ completed' = Tail(completed)
    /\ IF tasks[Head(completed)].pc = "failed"
       THEN /\ mainpc' = "raised"
            /\ UNCHANGED <<progress, report>>
       ELSE /\ progress' = progress + 1
            /\ mainpc' = IF progress + 1 = Len(jobset)
                         THEN "returned" ELSE "loop"
            /\ report' = IF progress + 1 = Len(jobset)
                         THEN Printed ELSE report
    /\ UNCHANGED <<atCancel, jobset, now, endpoint, df,
                   MAX_WORKERS, documents, semaphore, tasks, network,
                   attempts>>

\* main is cancelled while suspended in `await f`: CancelledError is raised
\* in main only; the request tasks are tasks of their own and nothing in
\* main cancels them.
Cancel ==
    /\ mainpc = "loop"
    /\ mainpc' = "cancelled"
    /\ atCancel' = Outstanding
    /\ UNCHANGED <<jobset, report, now, endpoint, df,
                   MAX_WORKERS, documents, semaphore, tasks, network,
                   completed, progress, attempts>>

\* ------------------------------------------------------------ specification
\* No DataFrame has been built.
NoFrame == [built |-> FALSE, rows |-> <<>>]

\* The notebook up to the definition of request and main: the configuration
\* is set and the documents are loaded.
Loaded ==
    /\ MAX_WORKERS \in 1..MaxWorkers
    /\ documents \in {Records(dataset, rowCount) :
                        dataset \in Datasets, rowCount \in 0..MaxDocs}
    /\ mainpc = "idle"
    /\ semaphore = BoundedSemaphore(0)
    /\ tasks = <<>>
    /\ network = {}
    /\ completed = <<>>
    /\ progress = 0
    /\ attempts = [d \in DOMAIN documents |-> 0]
    /\ atCancel = {}
    /\ jobset = [i \in DOMAIN documents |-> i]
    /\ report = NotPrinted
    /\ now = 0

\* The state in which the run cell is executed: endpoint.wait() has returned.
Init ==
    /\ Loaded
    /\ endpoint = "running"
    /\ df = NoFrame

Next ==
    \/ MainStart
    \/ \E t \in TaskIds : TaskStart(t)
    \/ \E t \in TaskIds : Resume(t)
    \/ \E t \in TaskIds : RespondOk(t)
    \/ \E t \in TaskIds : RespondError(t)
    \/ \E t \in TaskIds : Drop(t)
    \/ MainAwait
    \/ Cancel

Spec == Init /\ [][Next]_vars

\* The event loop runs every runnable coroutine, and the endpoint answers
\* every request it has not dropped.
FairSpec ==
    /\ Spec
    /\ WF_vars(MainStart)
    /\ WF_vars(MainAwait)
    /\ \A t \in 1..MaxDocs :
        /\ WF_vars(TaskStart(t))
        /\ WF_vars(Resume(t))
        /\ WF_vars(RespondOk(t) \/ RespondError(t))

\* ------------------------------------------------- the timed specification
\* Every request is answered successfully exactly one delay after it was
\* posted. Time passes only when the event loop is idle: no coroutine can
\* run and no response is due.
Due(t) == \E req \in network : req.task = t /\ req.at + 1 = now

Arrive(t) ==
    /\ Due(t)
    /\ RespondOk(t)
    /\ tasks'[t].pc = "done"

LoopIdle ==
    /\ mainpc # "idle"
    /\ InState("created") \cup InState("admitted") = {}
    /\ ~(mainpc = "loop" /\ completed # <<>>)
    /\ \A t \in TaskIds : ~Due(t)

Tick ==
    /\ LoopIdle
    /\ network # {}
    /\ now' = now + 1
    /\ UNCHANGED <<MAX_WORKERS, documents, mainpc, semaphore, tasks, network,
                   completed, progress, attempts, atCancel, jobset, report,
                   endpoint, df>>

TimedNext ==
    \/ MainStart
    \/ \E t \in TaskIds : TaskStart(t)
    \/ \E t \in TaskIds : Resume(t)
    \/ \E t \in TaskIds : Arrive(t)
    \/ MainAwait
    \/ Tick

TimedSpec == Init /\ [][TimedNext]_vars

\* ---------------------------------------------- running the client again
\* A further `await main(job)` in the same notebook, job being a list of
\* references to Records of `documents`: a new semaphore, new coroutines and
\* a new as_completed queue.
Restart(job) ==
    /\ jobset' = job
    /\ semaphore' = BoundedSemaphore(MAX_WORKERS)
    /\ tasks' = CreateTasks(job)
    /\ completed' = <<>>
    /\ progress' = 0
    /\ atCancel' = {}
    /\ mainpc' = IF Len(job) = 0 THEN "returned" ELSE "loop"
    /\ report' = IF Len(job) = 0 THEN Printed ELSE NotPrinted
    /\ UNCHANGED <<MAX_WORKERS, documents, network, attempts, now,
                   endpoint, df>>

\* No request task of the last run is still running.
Quiescent == \A t \in TaskIds : tasks[t].pc \in {"done", "failed"}

\* The Records without an embedding, in the order of `documents`:
\* [d for d in documents if 'embedding' not in d].
RECURSIVE Missing(_)
Missing(n) ==
    IF n = 0 THEN <<>>
    ELSE IF HasEmbedding(documents[n]) THEN Missing(n - 1)
    ELSE Append(Missing(n - 1), n)

\* The run cell is executed a second time on the same documents.
RunAgain ==
    /\ mainpc = "returned"
    /\ \A d \in DOMAIN documents : attempts[d] < MaxAttempts
    /\ Restart([i \in DOMAIN documents |-> i])

\* After a run that a failed request ended and whose other requests have
\* finished, main is called with the Records left without an embedding.
Resubmit ==
    /\ mainpc = "raised"
    /\ Quiescent
    /\ Missing(Len(documents)) # <<>>
    /\ \A d \in Range(Missing(Len(documents))) : attempts[d] < MaxAttempts
    /\ Restart(Missing(Len(documents)))

NextRerun ==
    \/ MainStart
    \/ \E t \in TaskIds : TaskStart(t)
    \/ \E t \in TaskIds : Resume(t)
    \/ \E t \in TaskIds : RespondOk(t)
    \/ \E t \in TaskIds : RespondError(t)
    \/ MainAwait
    \/ RunAgain
    \/ Resubmit

RerunSpec == Init /\ [][NextRerun]_vars

\* --------------------------------------------------- the notebook's cells
\* The cells run one at a time, in the order of the notebook. A cell that
\* raised has ended like any other: the kernel and its event loop stay up
\* and the next cell can be executed. The synchronous client calls of the
\* cells block the event loop, so no task runs during one of them.
\* Init with the endpoint just created and not yet awaited.
NotebookInit ==
    /\ Loaded
    /\ endpoint = "initializing"
    /\ df = NoFrame

\* endpoint.wait(): returns when the endpoint is running.
Wait ==
    /\ endpoint = "initializing"
    /\ endpoint' = "running"
    /\ UNCHANGED <<MAX_WORKERS, documents, mainpc, semaphore, tasks, network,
                   completed, progress, attempts, atCancel, jobset, report,
                   now, df>>

\* The run cell, `await main(documents)`, follows the cell of wait().
RunCell ==
    /\ endpoint = "running"
    /\ MainStart

\* The run cell has ended, by main's return or by its exception.
RunCellEnded == mainpc \in {"returned", "raised"}

\* endpoint = endpoint.pause()
Pause ==
    /\ RunCellEnded
    /\ endpoint = "running"
    /\ endpoint' = "paused"
    /\ UNCHANGED <<MAX_WORKERS, documents, mainpc, semaphore, tasks, network,
                   completed, progress, attempts, atCancel, jobset, report,
                   now, df>>

\* df = pd.DataFrame(documents): the columns are copied from the dicts.
DataFrame(docs) == [built |-> TRUE, rows |-> docs]

BuildFrame ==
    /\ endpoint = "paused"
    /\ ~df.built
    /\ df' = DataFrame(documents)
    /\ UNCHANGED <<MAX_WORKERS, documents, mainpc, semaphore, tasks, network,
                   completed, progress, attempts, atCancel, jobset, report,
                   now, endpoint>>

\* endpoint = endpoint.delete()
Delete ==
    /\ endpoint = "paused"
    /\ df.built
    /\ endpoint' = "deleted"
    /\ UNCHANGED <<MAX_WORKERS, documents, mainpc, semaphore, tasks, network,
                   completed, progress, attempts, atCancel, jobset, report,
                   now, df>>

\* Only a running endpoint answers a request with vectors.
Serve(t) ==
    /\ endpoint = "running"
    /\ RespondOk(t)

NotebookNext ==
    \/ Wait
    \/ RunCell
    \/ \E t \in TaskIds : TaskStart(t)
    \/ \E t \in TaskIds : Resume(t)
    \/ \E t \in TaskIds : Serve(t)
    \/ \E t \in TaskIds : RespondError(t)
    \/ MainAwait
    \/ Pause
    \/ BuildFrame
    \/ Delete

NotebookSpec == NotebookInit /\ [][NotebookNext]_vars

TypeOK ==
    /\ MAX_WORKERS \in 1..MaxWorkers
    /\ mainpc \in {"idle", "loop", "returned", "raised", "cancelled"}
    /\ semaphore.value \in 0..MaxWorkers
    /\ \A t \in TaskIds :
        /\ tasks[t].pc \in {"created", "waiting", "admitted", "posting",
                            "done", "failed"}
        /\ tasks[t].outcome \in {"none", "ok", "dropped"} \cup Failures
    /\ progress \in 0..Len(documents)
    /\ endpoint \in {"initializing", "running", "paused", "deleted"}
    /\ df.built \in BOOLEAN
    /\ Len(df.rows) \in {0, Len(documents)}

\* ------------------------------------------------------------------- claims
TasksOf(d) == {t \in TaskIds : tasks[t].document = d}

Posted == InState("posting") \cup InState("done") \cup InState("failed")

\* C1: in every reachable state the number of requests posted to the
\* endpoint whose await has not finished is at most the concurrency limit.
C1_InFlightAtMostK == Cardinality(Outstanding) <= MAX_WORKERS

\* K requests are out at once while a further task waits at the gate.
C1_Witness ==
    /\ MAX_WORKERS <= Len(documents)
    /\ Cardinality(Outstanding) = MAX_WORKERS
    /\ InState("waiting") # {}

\* C2: an embedding stored on a Record is the vector of the response to the
\* request of the task that owns this Record, computed from this Record's
\* content, whatever the completion order and also for equal contents.
C2_OwnResponse ==
    \A d \in Embedded :
        LET v == documents[d].embedding
        IN  /\ v.req \in TasksOf(d)
            /\ v.text = documents[d].content

\* Two Records of equal content, both embedded, the second one first.
C2_Witness ==
    /\ Len(documents) >= 2
    /\ documents[1].content = documents[2].content
    /\ {1, 2} \subseteq Embedded
    /\ completed = <<2, 1>>

\* C3: a failed request is isolated to its Record: no exception ends main.
C3_NoExceptionEndsMain == mainpc # "raised"

\* C4: no Record is ever sent twice, a Record has been sent exactly when its
\* task has passed the gate, and when main returns every Record has been sent
\* exactly once.
C4_ExactlyOneAttempt ==
    /\ \A d \in DOMAIN documents :
        /\ attempts[d] <= 1
        /\ mainpc # "idle" =>
              attempts[d] = Cardinality(TasksOf(d) \cap Posted)
        /\ mainpc = "returned" => attempts[d] = 1
    /\ mainpc = "returned" => Cardinality(Posted) = Len(documents)

\* main has returned from a Job Set larger than the concurrency limit.
C4_Witness ==
    /\ mainpc = "returned"
    /\ Len(documents) > MAX_WORKERS
    /\ \A d \in DOMAIN documents : attempts[d] = 1

\* C5: when main returns every request has completed and the Job Set is the
\* input sequence, each Record at its position and carrying the first vector
\* of the response to its own request.
C5_OutputOnReturn ==
    mainpc = "returned" =>
        /\ network = {}
        /\ \A t \in TaskIds : tasks[t].pc = "done"
        /\ Len(documents) = Len(tasks)
        /\ \A d \in DOMAIN documents :
            /\ documents[d].id = d
            /\ HasEmbedding(documents[d])
            /\ documents[d].embedding =
                  Vector([task |-> d, json |-> Payload(documents[d])], 1)

\* main has returned from a Job Set of several different Records.
C5_Witness ==
    /\ mainpc = "returned"
    /\ Len(documents) >= 2
    /\ documents[1].content # documents[2].content
    /\ Embedded = DOMAIN documents

\* C6: the step in which a request completes, with a result or with an
\* exception, gives its permit back: the permit goes to the counter or to
\* the oldest waiting task, and K permits are free or held afterwards.
C6_PermitReturnedOnCompletion ==
    [][\A t \in TaskIds :
          (tasks[t].pc = "posting" /\ tasks'[t].pc \in {"done", "failed"}) =>
             /\ IF semaphore.waiters = <<>>
                THEN semaphore'.value = semaphore.value + 1
                ELSE tasks'[Head(semaphore.waiters)].pc = "admitted"
             /\ semaphore'.value + Cardinality(Holders') = MAX_WORKERS]_vars

\* With one permit, a request failed and a later one is out.
C6_Witness ==
    /\ MAX_WORKERS = 1
    /\ InState("failed") # {}
    /\ InState("posting") # {}

\* C7: once the tasks exist each Record is owned by exactly one task and has
\* at most one request outstanding and at most one request at the endpoint.
C7_OneTaskPerRecord ==
    mainpc # "idle" =>
        \A d \in DOMAIN documents :
            /\ Cardinality(TasksOf(d)) = 1
            /\ Cardinality(TasksOf(d) \cap Outstanding) <= 1
            /\ Cardinality({req \in network : req.task \in TasksOf(d)}) <= 1

\* Two requests are outstanding at once.
C7_Witness == Cardinality(Outstanding) >= 2

NoFailure ==
    /\ mainpc # "cancelled"
    /\ \A t \in TaskIds : tasks[t].outcome \notin Failures \cup {"dropped"}

AllEmbeddedOnReturn ==
    /\ mainpc = "returned"
    /\ Embedded = DOMAIN documents

\* C8: when the endpoint answers every request successfully (and main is not
\* cancelled), main eventually returns with an embedding on every Record.
C8_EventuallyAllEmbedded == []NoFailure => <>AllEmbeddedOnReturn

\* main has returned although tasks had to queue at the gate.
C8_Witness ==
    /\ AllEmbeddedOnReturn
    /\ MAX_WORKERS = 1
    /\ Len(documents) >= 3

\* C9: when the endpoint never answers one request, the request times out
\* and main still terminates.
C9_DroppedRequestMainTerminates ==
    (\E t \in TaskIds : tasks[t].outcome = "dropped") ~>
        (mainpc \in {"returned", "raised", "cancelled"})

\* C10: when main was cancelled with requests outstanding, these requests
\* are abandoned (none of them completes and stores an embedding) and no
\* other request is posted afterwards.
C10_NothingAfterCancel ==
    (mainpc = "cancelled" /\ atCancel # {}) =>
        /\ \A t \in atCancel : tasks[t].pc = "posting"
        /\ Outstanding \subseteq atCancel

\* C11: a Record whose request failed with a transient network error is
\* given up only after its request has been retried.
C11_TransientErrorRetried ==
    \A t \in TaskIds :
        tasks[t].outcome = "transient" => attempts[tasks[t].document] >= 2

\* C12: no step changes the number of Records, the keys of a Record other
\* than `embedding`, or the value of any key other than `embedding`.
C12_OnlyEmbeddingChanges ==
    [][/\ Len(documents') = Len(documents)
       /\ \A d \in DOMAIN documents :
            /\ DOMAIN documents'[d] \ {"embedding"} =
                  DOMAIN documents[d] \ {"embedding"}
            /\ \A key \in DOMAIN documents[d] \ {"embedding"} :
                  documents'[d][key] = documents[d][key]]_vars

\* One Record of an oversized text was embedded and another Record failed.
C12_Witness ==
    /\ \E d \in Embedded : Oversized(documents[d].content)
    /\ InState("failed") # {}

\* C15: the embedding of every successfully processed Record has the
\* declared dimensionality as its length.
C15_EmbeddingLength ==
    /\ \A d \in Embedded : PyLen(documents[d].embedding) = EMBEDDING_DIM
    /\ \A t \in InState("done") : tasks[t].document \in Embedded

\* A Record whose response held several vectors was embedded.
C15_Witness ==
    \E d \in Embedded :
        /\ ChunksOf(documents[d].content) >= 2
        /\ PyLen(documents[d].embedding) = EMBEDDING_DIM

\* C16: the step in which a request succeeds stores on the task's Record
\* the first vector of the response to that request, and none of the others.
C16_FirstVectorStored ==
    [][\A t \in TaskIds :
          (tasks[t].pc = "posting" /\ tasks'[t].pc = "done") =>
             \E req \in network :
                /\ req.task = t
                /\ LET body == Reply(req, ChunksOf(req.json.inputs))
                       stored == documents'[tasks[t].document].embedding
                   IN  /\ stored = body[1]
                       /\ \A k \in 2..Len(body) : stored # body[k]]_vars

\* A Record whose response held several vectors carries the first of them.
C16_Witness ==
    \E d \in Embedded :
        /\ ChunksOf(documents[d].content) >= 2
        /\ documents[d].embedding.chunk = 1

\* C17: for a caller who wants truncate = false, a Record whose text exceeds
\* the service's maximum length is rejected: it never gets an embedding.
C17_OversizedRejected ==
    \A d \in DOMAIN documents :
        Oversized(documents[d].content) => ~HasEmbedding(documents[d])

C20_ReportAfterEveryRun ==
    mainpc \in {"returned", "raised"} => report.printed

CeilDiv(n, k) == (n + k - 1) \div k

\* C19: when every request succeeds after the same delay, main returns
\* ceil(N/K) delays after it was called.
C19_WavesOfK ==
    mainpc = "returned" => now = CeilDiv(Len(jobset), MAX_WORKERS)

\* Three Records with two workers took two delays, not three.
C19_Witness ==
    /\ mainpc = "returned"
    /\ Len(jobset) = 3
    /\ MAX_WORKERS = 2
    /\ now = 2

\* The numbers of a stored vector: what the endpoint computed from the text.
Floats(v) == [text |-> v.text, chunk |-> v.chunk, shape |-> v.shape]

\* C13: whenever a run stores an embedding on a Record that has one from an
\* earlier run, the new embedding equals the old one; and a Record given an
\* embedding holds the vector of its own text.
C13_SameEmbeddingsOnRerun ==
    [][\A d \in DOMAIN documents :
         HasEmbedding(documents'[d]) =>
            /\ documents'[d].embedding.text = documents[d].content
            /\ HasEmbedding(documents[d]) =>
                  Floats(documents'[d].embedding) = Floats(documents[d].embedding)]_vars

\* Two complete runs over Records with different texts.
C13_Witness ==
    /\ mainpc = "returned"
    /\ Len(documents) >= 2
    /\ \A d \in DOMAIN documents : attempts[d] = 2
    /\ \E d, e \in DOMAIN documents : documents[d].content # documents[e].content

\* C14: a run requests and changes only the Records it was called with, and
\* when a run returns every Record has an embedding.
C14_ResubmitFailedOnly ==
    /\ [][\A d \in DOMAIN documents :
            d \notin Range(jobset') =>
                /\ attempts'[d] = attempts[d]
                /\ documents'[d] = documents[d]]_vars
    /\ [](mainpc = "returned" => Embedded = DOMAIN documents)

\* A resubmission of the failed Records has returned: one Record was
\* requested once, another twice, and all have an embedding.
C14_Witness ==
    /\ mainpc = "returned"
    /\ Len(jobset) < Len(documents)
    /\ \E d, e \in DOMAIN documents : attempts[d] = 1 /\ attempts[e] = 2
    /\ Embedded = DOMAIN documents

\* The tasks that have not reached the assignment to their Record: not yet
\* started, queued at the gate, admitted, suspended in the post, or ended by
\* an exception.
Unstored ==
    InState("created") \cup InState("waiting") \cup InState("admitted")
        \cup InState("posting") \cup InState("failed")

\* C21: in every reachable state, main cancelled or requests failed
\* included, a Record has its original keys and either no embedding or the
\* complete first vector of the response to its own request; the Record of a
\* task that waits for a slot, is suspended or has failed is untouched.
C21_NoPartialRecord ==
    /\ \A d \in DOMAIN documents :
        IF HasEmbedding(documents[d])
        THEN /\ DOMAIN documents[d] = {"id", "content", "embedding"}
             /\ \E t \in TasksOf(d) \cap InState("done") :
                    documents[d].embedding =
                        Vector([task |-> t, json |-> Payload(documents[d])], 1)
        ELSE documents[d] = NewRecord(d, documents[d].content)
    /\ \A t \in Unstored : ~HasEmbedding(documents[tasks[t].document])

\* main was cancelled after one Record was embedded and another failed,
\* while a further task had not posted yet.
C21_Witness ==
    /\ mainpc = "cancelled"
    /\ Embedded # {}
    /\ InState("failed") # {}
    /\ InState("waiting") \cup InState("admitted") # {}

\* The requests that have finished, with a result or with an exception.
Finished == InState("done") \cup InState("failed")

C23_SiblingsCancelledOnRaise ==
    [][(mainpc = "raised" /\ InState("created") = {}) =>
          /\ attempts' = attempts
          /\ documents' = documents
          /\ Holders' \subseteq Holders]_vars

\* A step that releases a permit: the counter goes up or a waiter is
\* taken from the queue.
ReleaseStep ==
    \/ semaphore'.value > semaphore.value
    \/ Len(semaphore'.waiters) < Len(semaphore.waiters)

\* C24: once main has created the semaphore, the free permits plus the tasks
\* inside the gate are K, the free permits stay within 0..K, the tasks
\* queued at the gate are the waiting ones, and a step that releases a permit
\* is the step in which exactly one task that held a permit leaves the gate,
\* giving back exactly one permit.
C24_PermitsConserved ==
    /\ [](mainpc # "idle" =>
            /\ semaphore.value + Cardinality(Holders) = MAX_WORKERS
            /\ semaphore.value \in 0..MAX_WORKERS
            /\ semaphore.bound = MAX_WORKERS
            /\ Range(semaphore.waiters) = InState("waiting")
            /\ Len(semaphore.waiters) = Cardinality(InState("waiting")))
    /\ [][(mainpc # "idle" /\ ReleaseStep) =>
            /\ Cardinality({t \in Holders : tasks'[t].pc \in {"done", "failed"}}) = 1
            /\ semaphore'.value + Len(semaphore.waiters) =
                  semaphore.value + Len(semaphore'.waiters) + 1
            /\ semaphore'.value <= semaphore'.bound]_vars

\* With one permit, a finished task has handed its permit to the oldest
\* waiter while another task is still queued.
C24_Witness ==
    /\ MAX_WORKERS = 1
    /\ semaphore.value = 0
    /\ Finished # {}
    /\ InState("admitted") # {}
    /\ InState("waiting") # {}

\* Every request that was sent gets an answer.
NoDrop == \A t \in TaskIds : tasks[t].outcome # "dropped"

\* C25: when every request that was sent is answered, with a result or an
\* error, every task suspended at the gate is eventually admitted: from
\* some point on no task is suspended there (a task passes the gate once and
\* never queues again). And no task is suspended at the gate while a permit
\* is free.
C25_WaiterEventuallyAdmitted ==
    []NoDrop =>
        /\ <>[](InState("waiting") = {})
        /\ [](InState("waiting") # {} => semaphore.value = 0)

\* With two permits, a task that had to wait has been admitted while
\* another request is still out.
C25_Witness ==
    /\ MAX_WORKERS = 2
    /\ InState("admitted") # {}
    /\ InState("posting") # {}
    /\ NoDrop

\* C26: within a run, no step removes or changes the embedding of a Record
\* that has one.
C26_EmbeddingWriteOnce ==
    [][\A d \in DOMAIN documents :
          HasEmbedding(documents[d]) =>
             /\ HasEmbedding(documents'[d])
             /\ documents'[d].embedding = documents[d].embedding]_vars

\* Two Records were embedded one after the other, a third request failed
\* and main has counted a result.
C26_Witness ==
    /\ Cardinality(Embedded) >= 2
    /\ InState("failed") # {}
    /\ progress >= 1

\* The tasks of the batch that are queued at the gate, admitted, or have a
\* request outstanding.
Unfinished == InState("waiting") \cup Holders

\* C27: no request has been sent before endpoint.wait() returned, and once
\* the endpoint is paused or deleted no task of the batch is still at the
\* gate or has a request outstanding, so the Records are those of the dataset
\* built from them.
C27_RequestsOnlyWhileRunning ==
    /\ endpoint = "initializing" =>
          network = {} /\ \A d \in DOMAIN documents : attempts[d] = 0
    /\ endpoint \in {"paused", "deleted"} =>
          network = {} /\ Unfinished = {}
    /\ df.built => df.rows = documents

====
